---- MODULE Spec2Model ----
(***************************************************************************)
(* A model of the two scripts of the repository:                           *)
(*   main.py      - the instrumented batch runner (process_folder,         *)
(*                  remove_background, percentile, the resource probes)    *)
(*   visualize.py - the pairing report generator (main, as_data_url)       *)
(* File names are sequences of one-character strings so that pathlib's     *)
(* suffix/stem and str.lower() are computed, not assumed.                  *)
(***************************************************************************)
EXTENDS Integers, Sequences, FiniteSets, TLC

\* ------------------------------------------------------------------------
\* Bounds of the model
\* ------------------------------------------------------------------------
MaxEntries == 3      \* most entries a modelled input directory holds

\* ------------------------------------------------------------------------
\* Strings: str.lower(), Path.suffix, Path.stem
\* ------------------------------------------------------------------------
UpperCase == <<"A","B","C","D","E","F","G","H","I","J","K","L","M",
               "N","O","P","Q","R","S","T","U","V","W","X","Y","Z">>
LowerCase == <<"a","b","c","d","e","f","g","h","i","j","k","l","m",
               "n","o","p","q","r","s","t","u","v","w","x","y","z">>

lowerChar(ch) ==
    IF \E i \in 1..26 : UpperCase[i] = ch
    THEN LowerCase[CHOOSE i \in 1..26 : UpperCase[i] = ch]
    ELSE ch

lower(s) == [i \in 1..Len(s) |-> lowerChar(s[i])]

\* str.rfind('.') as a 1-based position, 0 when there is no dot
rfindDot(s) ==
    IF \E i \in 1..Len(s) : s[i] = "."
    THEN CHOOSE i \in 1..Len(s) : s[i] = "." /\ \A j \in (i+1)..Len(s) : s[j] # "."
    ELSE 0

\* pathlib: the dot must be neither the first nor the last character
hasSuffix(s) == rfindDot(s) > 1 /\ rfindDot(s) < Len(s)

suffix(s) == IF hasSuffix(s) THEN SubSeq(s, rfindDot(s), Len(s)) ELSE <<>>

stem(s) == IF hasSuffix(s) THEN SubSeq(s, 1, rfindDot(s) - 1) ELSE s

DotPng == <<".","p","n","g">>

\* the list literal of process_folder
BatchExts == { <<".","j","p","g">>, <<".","j","p","e","g">>, DotPng,
               <<".","w","e","b","p">> }

\* ------------------------------------------------------------------------
\* IEEE-754 binary64 arithmetic, as far as percentile() uses it.
\* A value is sg * m * 2^e with m a natural number.  Naturals wider than
\* TLC's integers are sequences of limbs in base 2^LimbBits, least
\* significant first, without leading zero limbs.  Canonical form: m is
\* odd; zero is m = <<>>, e = 0, sg = 1.
\* ------------------------------------------------------------------------
Precision == 53        \* significand bits of a Python float
QuotBits == 75         \* fraction bits the division keeps before rounding
LimbBits == 15
Base == 2^LimbBits

RECURSIVE NatToLimbs(_)
NatToLimbs(n) == IF n = 0 THEN <<>> ELSE <<n % Base>> \o NatToLimbs(n \div Base)

RECURSIVE LimbsToNat(_)
LimbsToNat(b) == IF b = <<>> THEN 0 ELSE b[1] + Base * LimbsToNat(Tail(b))

RECURSIVE StripHigh(_)
StripHigh(b) ==
    IF b = <<>> THEN <<>>
    ELSE IF b[Len(b)] = 0 THEN StripHigh(SubSeq(b, 1, Len(b) - 1)) ELSE b

Zeros(n) == [i \in 1..n |-> 0]

LimbAt(b, i) == IF i >= 1 /\ i <= Len(b) THEN b[i] ELSE 0

RECURSIVE AddFrom(_, _, _, _)
AddFrom(a, b, i, carry) ==
    IF i > Len(a) /\ i > Len(b)
    THEN IF carry = 0 THEN <<>> ELSE <<carry>>
    ELSE LET t == LimbAt(a, i) + LimbAt(b, i) + carry
         IN  <<t % Base>> \o AddFrom(a, b, i + 1, t \div Base)

AddLimbs(a, b) == AddFrom(a, b, 1, 0)

\* a - b for a >= b
RECURSIVE SubFrom(_, _, _, _)
SubFrom(a, b, i, borrow) ==
    IF i > Len(a) THEN <<>>
    ELSE LET t == LimbAt(a, i) - LimbAt(b, i) - borrow
         IN  <<t % Base>> \o SubFrom(a, b, i + 1, IF t < 0 THEN 1 ELSE 0)

SubLimbs(a, b) == StripHigh(SubFrom(a, b, 1, 0))

\* a < b, both without leading zero limbs
LessLimbs(a, b) ==
    \/ Len(a) < Len(b)
    \/ /\ Len(a) = Len(b)
       /\ \E i \in 1..Len(a) :
             /\ a[i] < b[i]
             /\ \A j \in (i+1)..Len(a) : a[j] = b[j]

RECURSIVE MulFrom(_, _, _, _)
MulFrom(b, d, i, carry) ==
    IF i > Len(b) THEN NatToLimbs(carry)
    ELSE LET t == b[i] * d + carry
         IN  <<t % Base>> \o MulFrom(b, d, i + 1, t \div Base)

\* b * d for a natural d < Base
MulLimbs(b, d) == StripHigh(MulFrom(b, d, 1, 0))

\* long division of b by a natural d, 0 < d <= Base, from the most
\* significant limb down: the quotient limbs and the final remainder
RECURSIVE DivFrom(_, _, _, _)
DivFrom(b, d, i, rem) ==
    IF i = 0 THEN [q |-> <<>>, r |-> rem]
    ELSE LET t    == Base * rem + b[i]
             rest == DivFrom(b, d, i - 1, t % d)
         IN  [q |-> rest.q \o <<t \div d>>, r |-> rest.r]

DivLimbs(b, d) == StripHigh(DivFrom(b, d, Len(b), 0).q)

\* b * 2^n and floor(b / 2^n)
ShiftLeft(b, n) ==
    IF b = <<>> THEN <<>>
    ELSE Zeros(n \div LimbBits) \o MulLimbs(b, 2^(n % LimbBits))

ShiftRight(b, n) ==
    IF n \div LimbBits >= Len(b) THEN <<>>
    ELSE DivLimbs(SubSeq(b, (n \div LimbBits) + 1, Len(b)), 2^(n % LimbBits))

\* number of bits of b
BitLen(b) ==
    IF b = <<>> THEN 0
    ELSE LimbBits * (Len(b) - 1)
         + (CHOOSE k \in 1..LimbBits : 2^(k-1) <= b[Len(b)] /\ b[Len(b)] < 2^k)

\* bit i of b, the least significant bit being bit 1
BitAt(b, i) == LET r == ShiftRight(b, i - 1) IN IF r = <<>> THEN 0 ELSE r[1] % 2

\* the n lowest bits of b are zero
LowBitsZero(b, n) == ShiftLeft(ShiftRight(b, n), n) = b

\* number of trailing zero bits of b # 0
LowZeros(b) ==
    LET w == CHOOSE i \in 1..Len(b) : b[i] # 0 /\ \A j \in 1..(i-1) : b[j] = 0
    IN  LimbBits * (w - 1)
        + (CHOOSE k \in 0..(LimbBits-1) : b[w] % 2^k = 0 /\ b[w] % 2^(k+1) # 0)

FZero == [sg |-> 1, m |-> <<>>, e |-> 0]

\* canonical form of sg * b * 2^e
Canon(sg, b, e) ==
    LET h == StripHigh(b)
    IN  IF h = <<>> THEN FZero
        ELSE [sg |-> sg, m |-> ShiftRight(h, LowZeros(h)), e |-> e + LowZeros(h)]

\* round-to-nearest, ties-to-even, of sg * (b + s) * 2^e to Precision
\* bits, where sticky says that 0 < s < 1
Round(sg, b, e, sticky) ==
    LET h    == StripHigh(b)
        drop == BitLen(h) - Precision
    IN  IF drop <= 0 THEN Canon(sg, h, e)
        ELSE LET kept  == ShiftRight(h, drop)
                 guard == BitAt(h, drop)
                 rest  == sticky \/ ~LowBitsZero(h, drop - 1)
                 up    == guard = 1 /\ (rest \/ kept[1] % 2 = 1)
             IN  Canon(sg, IF up THEN AddLimbs(kept, <<1>>) ELSE kept, e + drop)

Abs(n) == IF n < 0 THEN -n ELSE n
Sign(n) == IF n < 0 THEN -1 ELSE 1

\* float(n) for a Python int n (exact below 2^53)
FromInt(n) == Canon(Sign(n), NatToLimbs(Abs(n)), 0)

\* float(a) / float(b) for naturals a and 0 < b <= Base
FDivNat(a, b) ==
    LET d == DivFrom(ShiftLeft(NatToLimbs(a), QuotBits), b,
                     Len(ShiftLeft(NatToLimbs(a), QuotBits)), 0)
    IN  Round(1, d.q, -QuotBits, d.r # 0)

\* n * x for a Python int n, |n| < Base, and a float x
FMulInt(n, x) == Round(Sign(n) * x.sg, MulLimbs(x.m, Abs(n)), x.e, FALSE)

\* x + y
FAdd(x, y) ==
    LET e  == IF x.e < y.e THEN x.e ELSE y.e
        mx == ShiftLeft(x.m, x.e - e)
        my == ShiftLeft(y.m, y.e - e)
    IN  IF x.sg = y.sg THEN Round(x.sg, AddLimbs(mx, my), e, FALSE)
        ELSE IF LessLimbs(mx, my) THEN Round(y.sg, SubLimbs(my, mx), e, FALSE)
        ELSE Round(x.sg, SubLimbs(mx, my), e, FALSE)

\* math.floor and math.ceil of a float 0 <= x < 2^30
FFloor(x) == IF x.e >= 0 THEN LimbsToNat(ShiftLeft(x.m, x.e))
             ELSE LimbsToNat(ShiftRight(x.m, -x.e))

FCeil(x) == IF x.e >= 0 THEN FFloor(x) ELSE FFloor(x) + 1

\* ------------------------------------------------------------------------
\* main.py: percentile
\* ------------------------------------------------------------------------
RECURSIVE insert(_, _)
insert(xs, v) ==
    IF xs = <<>> THEN <<v>>
    ELSE IF v < Head(xs) THEN <<v>> \o xs
    ELSE <<Head(xs)>> \o insert(Tail(xs), v)

\* sorted(data) for a list of Python ints
RECURSIVE sorted(_)
sorted(data) ==
    IF data = <<>> THEN <<>>
    ELSE insert(sorted(SubSeq(data, 1, Len(data) - 1)), data[Len(data)])

\* percentile with the nearest rank taken in the place of the interpolation
percentile_nearest_rank(data, p) ==
    IF data = <<>> THEN FZero
    ELSE LET xs == sorted(data)
             k  == FMulInt(Len(xs) - 1, FDivNat(p, 100))
             f  == FFloor(k)
             c  == FCeil(k)
         IN  IF f = c THEN FromInt(xs[f + 1])
             ELSE IF FAdd(k, FromInt(-f)).e < -1 THEN FromInt(xs[f + 1])
             ELSE FromInt(xs[c + 1])

\* percentile(data, p) for a list of ints and an int p >= 0; the result as
\* a float (xs[int(k)] is the sample itself, an int of the same value)
percentile(data, p) ==
    IF data = <<>> THEN FZero
    ELSE LET xs == sorted(data)
             k  == FMulInt(Len(xs) - 1, FDivNat(p, 100))
             f  == FFloor(k)
             c  == FCeil(k)
         IN  IF f = c THEN FromInt(xs[f + 1])
             ELSE FAdd(FromInt(xs[f + 1]),
                       FMulInt(xs[c + 1] - xs[f + 1], FAdd(k, FromInt(-f))))

\* max(data) for a non-empty list of ints
max(data) == CHOOSE v \in {data[i] : i \in 1..Len(data)} :
                \A i \in 1..Len(data) : data[i] <= v

\* ------------------------------------------------------------------------
\* main.py: the batch runner.  State of one run of process_folder.
\* ------------------------------------------------------------------------
VARIABLES
    GPU_AVAILABLE,  \* module flag set by the import of pynvml
    listing,        \* the entries of input_dir
    todo,           \* entries input_dir.glob("*") has not yielded yet
    pc,             \* position of the run
    img_path,       \* the entry being processed, or None
    frame,          \* locals of the running remove_background call, or None
    result,         \* how the call ended: a return value or an exception
    times, ram_deltas, vram_deltas, count,
    report,         \* the printed summary, or None
    vram_lines,     \* the VRAM lines printed so far
    errlog,         \* the "Error with <name>: <cause>" lines printed so far
    handed,         \* how often each entry was passed to remove_background
    calls,          \* the calls that ended, with what their environment did
    files,          \* names of the files in output_dir
    saves           \* number of img.save calls that completed

batchVars == <<GPU_AVAILABLE, listing, todo, pc, img_path, frame, result,
               times, ram_deltas, vram_deltas, count, report, vram_lines,
               errlog, handed, calls, files, saves>>

None == "None"

\* ------------------------------------------------------------------------
\* A call of percentile on its own
\* ------------------------------------------------------------------------
VARIABLES
    call_data, call_p,  \* the arguments
    pct_pc,         \* "call" before the call, "returned" after it
    pct_result      \* the returned value, or None

pctVars == <<call_data, call_p, pct_pc, pct_result>>

MaxLen == 3          \* longest list drawn from SampleValues
MaxRamp == 26        \* longest list of consecutive numbers

SampleValues == {-2, 0, 5}

Percents == 0..100

RECURSIVE SeqsUpTo(_, _)
SeqsUpTo(S, n) ==
    IF n = 0 THEN {<<>>}
    ELSE LET shorter == SeqsUpTo(S, n - 1)
         IN  shorter \cup {Append(q, v) : q \in {r \in shorter : Len(r) = n - 1}, v \in S}

\* n, n-1, ..., 1 and the list 1, 2, ..., n
Descending(n) == [i \in 1..n |-> n + 1 - i]
Ascending(n) == [i \in 1..n |-> i]

Samples == SeqsUpTo(SampleValues, MaxLen)
           \cup {Descending(n) : n \in 1..MaxRamp}
           \cup {Ascending(n) : n \in 1..MaxRamp}

InitPct ==
    /\ call_data \in Samples
    /\ call_p \in Percents
    /\ pct_pc = "call"
    /\ pct_result = None

IdlePct ==
    /\ call_data = <<>>
    /\ call_p = 0
    /\ pct_pc = "idle"
    /\ pct_result = None

\* ------------------------------------------------------------------------
\* visualize.py: the report generator.  State of one run of main.
\* ------------------------------------------------------------------------
VARIABLES
    orig_dir, proc_dir, \* the entries of the two directories
    unreadable,         \* the files whose read_bytes() raised
    out_before,         \* what is at the out_html path before the run
    out_html,           \* what is at the out_html path
    vpc,                \* position of the run
    originals, processed, keys, rows_html,
    idx,                \* position of the loop of line 37 in keys
    warnings,           \* the stems of the "skipped" warnings printed
    printed,            \* the error or final message printed, or None
    exit_status         \* exit status of the process, None while it runs

vizVars == <<orig_dir, proc_dir, unreadable, out_before, out_html, vpc,
             originals, processed, keys, rows_html, idx, warnings, printed,
             exit_status>>

MaxDir == 3          \* most entries a modelled directory holds

OrigEntries == {
    [name |-> <<"a",".","j","p","g">>, isfile |-> TRUE],
    [name |-> <<"b",".","p","n","g">>, isfile |-> TRUE],
    [name |-> <<"c",".","j","p","g">>, isfile |-> TRUE],
    [name |-> <<"a",".","b","m","p">>, isfile |-> TRUE],
    [name |-> <<"B",".","T","I","F">>, isfile |-> TRUE],
    [name |-> <<"x",".","t","x","t">>, isfile |-> TRUE],
    [name |-> <<"e",".","p","n","g">>, isfile |-> FALSE] }

ProcEntries == {
    [name |-> <<"a",".","p","n","g">>, isfile |-> TRUE],
    [name |-> <<"b",".","p","n","g">>, isfile |-> TRUE],
    [name |-> <<"d",".","p","n","g">>, isfile |-> TRUE],
    [name |-> <<"B",".","P","N","G">>, isfile |-> TRUE],
    [name |-> <<"c",".","j","p","g">>, isfile |-> TRUE],
    [name |-> <<"e",".","p","n","g">>, isfile |-> TRUE] }

IMG_EXTS == { <<".","j","p","g">>, <<".","j","p","e","g">>, DotPng,
              <<".","w","e","b","p">>, <<".","b","m","p">>,
              <<".","t","i","f">>, <<".","t","i","f","f">> }

\* order of str: by code point, "." before the capitals before the
\* small letters
Alphabet == <<".">> \o UpperCase \o LowerCase

ord(ch) == CHOOSE n \in 1..Len(Alphabet) : Alphabet[n] = ch

strLess(s, t) ==
    \E n \in 1..(Len(t)) :
        /\ \A j \in 1..(n-1) : j <= Len(s) /\ s[j] = t[j]
        /\ \/ n = Len(s) + 1
           \/ n <= Len(s) /\ ord(s[n]) < ord(t[n])

\* sorted(S) for a set of str
RECURSIVE sortedStrs(_)
sortedStrs(S) ==
    IF S = {} THEN <<>>
    ELSE LET least == CHOOSE s \in S : \A t \in S \ {s} : strLess(s, t)
         IN  <<least>> \o sortedStrs(S \ {least})

\* the dicts {p.stem: p for p in C}: one entry of C for each stem, the one
\* iterdir() yields last
Dicts(C) ==
    {f \in [{stem(e.name) : e \in C} -> C] :
        \A k \in DOMAIN f : stem(f[k].name) = k}

InitViz ==
    /\ orig_dir \in {d \in SUBSET OrigEntries : Cardinality(d) <= MaxDir}
    /\ proc_dir \in {d \in SUBSET ProcEntries : Cardinality(d) <= MaxDir}
    /\ unreadable = {}
    /\ out_before \in {[kind |-> "absent"], [kind |-> "stale"]}
    /\ out_html = out_before
    /\ vpc = "scan"
    /\ originals = <<>>
    /\ processed = <<>>
    /\ keys = <<>>
    /\ rows_html = <<>>
    /\ idx = 1
    /\ warnings = {}
    /\ printed = None
    /\ exit_status = None

IdleViz ==
    /\ orig_dir = {}
    /\ proc_dir = {}
    /\ unreadable = {}
    /\ out_before = [kind |-> "absent"]
    /\ out_html = [kind |-> "absent"]
    /\ vpc = "idle"
    /\ originals = <<>>
    /\ processed = <<>>
    /\ keys = <<>>
    /\ rows_html = <<>>
    /\ idx = 1
    /\ warnings = {}
    /\ printed = None
    /\ exit_status = None


\* The directory entries the model draws input_dir from.  image says that
\* PIL can decode the entry; a directory cannot be opened as an image.
Entries == {
    [name |-> <<"a",".","j","p","g">>,     isdir |-> FALSE, image |-> TRUE],
    [name |-> <<"a",".","p","n","g">>,     isdir |-> FALSE, image |-> TRUE],
    [name |-> <<"B",".","J","P","G">>,     isdir |-> FALSE, image |-> TRUE],
    [name |-> <<"c",".","j","p","e","g">>, isdir |-> FALSE, image |-> FALSE],
    [name |-> <<"d",".","p","n","g">>,     isdir |-> TRUE,  image |-> FALSE],
    [name |-> <<"e",".","t","x","t">>,     isdir |-> FALSE, image |-> FALSE],
    [name |-> <<"f",".","w","e","b","p">>, isdir |-> FALSE, image |-> TRUE],
    [name |-> <<".","p","n","g">>,         isdir |-> FALSE, image |-> TRUE] }

MemLevels == {100, 90}     \* readings of process.memory_info().rss, in MB
VramLevels == {500, 510}   \* readings of nvmlDeviceGetMemoryInfo, in MB
TimeLevels == {0, 2}       \* readings of time.time()

\* what the external collaborators of one call do, once the image is
\* open: all work, or the named one raises (session construction,
\* remove(), img.save())
Envs == {"ok", "session", "model", "write"}

get_memory_usage_mb == MemLevels

get_vram_usage_mb == IF ~GPU_AVAILABLE THEN {0} ELSE VramLevels

\* the test of line 112
selected(e) == lower(suffix(e.name)) \in BatchExts

\* line 77
out_name(e) == stem(e.name) \o DotPng

\* Names line 75 reads: remove, image and rembg_session.  LocalNames are
\* the names remove_background has bound when it reaches line 75,
\* ModuleNames the names main.py binds at module level.
RemoveArg == "image"

LocalNames == {"src_img_path", "output_dir", "before_mem", "before_vram",
               "start_time", "data", "session_class", "model_name", "sc",
               "sess_opts", "rembg_session"}

ModuleNames == {"Path", "Image", "new_session", "remove", "argparse",
                "psutil", "os", "time", "math", "sessions_class", "ort",
                "Optional", "Type", "BaseSession", "pynvml", "GPU_AVAILABLE",
                "get_memory_usage_mb", "get_vram_usage_mb", "percentile",
                "remove_background", "process_folder", "main"}

resolves(n) == n \in LocalNames \cup ModuleNames

Raise(cause) == [ok |-> FALSE, cause |-> cause]

Return(v) == [ok |-> TRUE, value |-> v]

InitBatch ==
    /\ GPU_AVAILABLE \in BOOLEAN
    /\ listing \in {d \in SUBSET Entries : Cardinality(d) <= MaxEntries}
    /\ todo = listing
    /\ pc = "loop"
    /\ img_path = None
    /\ frame = None
    /\ result = None
    /\ times = <<>> /\ ram_deltas = <<>> /\ vram_deltas = <<>> /\ count = 0
    /\ report = None
    /\ vram_lines = {}
    /\ errlog = {}
    /\ handed = [e \in listing |-> 0]
    /\ calls = {}
    /\ files = {}
    /\ saves = 0

\* lines 111-115: the loop takes the next entry, skips it or calls
\* remove_background on it
glob_next ==
    /\ pc = "loop"
    /\ \E e \in todo :
         /\ todo' = todo \ {e}
         /\ IF ~selected(e)
            THEN UNCHANGED <<pc, img_path, handed>>
            ELSE /\ pc' = "rb_probe"
                 /\ img_path' = e
                 /\ handed' = [handed EXCEPT ![e] = @ + 1]
    /\ UNCHANGED <<GPU_AVAILABLE, listing, frame, result, times, ram_deltas,
                   vram_deltas, count, report, vram_lines, errlog, calls,
                   files, saves>>
    /\ UNCHANGED <<pctVars, vizVars>>

\* lines 54-58: the probe readings and the timer start
rb_probe ==
    /\ pc = "rb_probe"
    /\ \E m \in get_memory_usage_mb, v \in get_vram_usage_mb,
          t \in TimeLevels :
         frame' = [before_mem |-> m, before_vram |-> v, start_time |-> t,
                   env |-> None]
    /\ pc' = "rb_open"
    /\ UNCHANGED <<GPU_AVAILABLE, listing, todo, img_path, result, times,
                   ram_deltas, vram_deltas, count, report, vram_lines, errlog,
                   handed, calls, files, saves>>
    /\ UNCHANGED <<pctVars, vizVars>>

\* line 60: Image.open
rb_open ==
    /\ pc = "rb_open"
    /\ IF img_path.isdir \/ ~img_path.image
       THEN /\ result' = Raise("open")
            /\ pc' = "pf_result"
       ELSE /\ pc' = "rb_session"
            /\ UNCHANGED result
    /\ UNCHANGED <<GPU_AVAILABLE, listing, todo, img_path, frame, times,
                   ram_deltas, vram_deltas, count, report, vram_lines, errlog,
                   handed, calls, files, saves>>
    /\ UNCHANGED <<pctVars, vizVars>>

\* lines 62-72: the session of the model
rb_session ==
    /\ pc = "rb_session"
    /\ \E env \in Envs :
         /\ frame' = [frame EXCEPT !.env = env]
         /\ IF env = "session"
            THEN /\ result' = Raise("session")
                 /\ pc' = "pf_result"
            ELSE /\ pc' = "rb_remove"
                 /\ UNCHANGED result
    /\ UNCHANGED <<GPU_AVAILABLE, listing, todo, img_path, times,
                   ram_deltas, vram_deltas, count, report, vram_lines, errlog,
                   handed, calls, files, saves>>
    /\ UNCHANGED <<pctVars, vizVars>>

\* lines 75-97: the removal, the save, the second readings, the printed
\* VRAM line and the returned measurement
rb_remove ==
    /\ pc = "rb_remove"
    /\ pc' = "pf_result"
    /\ IF ~resolves(RemoveArg)
       THEN /\ result' = Raise("NameError")
            /\ UNCHANGED <<files, saves, vram_lines>>
       ELSE IF frame.env = "model"
       THEN /\ result' = Raise("model")
            /\ UNCHANGED <<files, saves, vram_lines>>
       ELSE IF frame.env = "write"
       THEN /\ result' = Raise("write")
            /\ UNCHANGED <<files, saves, vram_lines>>
       ELSE /\ files' = files \cup {out_name(img_path)}
            /\ saves' = saves + 1
            /\ \E end_time \in {t \in TimeLevels : t >= frame.start_time},
                  after_mem \in get_memory_usage_mb,
                  after_vram \in get_vram_usage_mb :
                 /\ result' = Return(<<end_time - frame.start_time,
                                       after_mem - frame.before_mem,
                                       after_vram - frame.before_vram>>)
                 /\ vram_lines' = vram_lines \cup
                      {IF GPU_AVAILABLE
                       THEN [at |-> "item", name |-> img_path.name,
                             text |-> "delta",
                             value |-> after_vram - frame.before_vram]
                       ELSE [at |-> "item", name |-> img_path.name,
                             text |-> "unavailable", value |-> None]}
    /\ UNCHANGED <<GPU_AVAILABLE, listing, todo, img_path, frame, times,
                   ram_deltas, vram_deltas, count, report, errlog, handed,
                   calls>>
    /\ UNCHANGED <<pctVars, vizVars>>

\* pf_result with the exception of a failing item leaving process_folder
pf_result_reraise ==
    /\ pc = "pf_result"
    /\ IF result.ok
       THEN /\ times' = Append(times, result.value[1])
            /\ ram_deltas' = Append(ram_deltas, result.value[2])
            /\ vram_deltas' = Append(vram_deltas, result.value[3])
            /\ count' = count + 1
            /\ pc' = "loop"
       ELSE /\ pc' = "raised"
            /\ UNCHANGED <<times, ram_deltas, vram_deltas, count>>
    /\ calls' = calls \cup {[entry |-> img_path, env |-> frame.env,
                             ok |-> result.ok]}
    /\ img_path' = None
    /\ frame' = None
    /\ result' = None
    /\ UNCHANGED <<GPU_AVAILABLE, listing, todo, report, vram_lines, errlog,
                   handed, files, saves>>
    /\ UNCHANGED <<pctVars, vizVars>>

\* lines 115-121: the try block of the loop body takes the measurement, or
\* the except clause prints the error line; either way the loop goes on
pf_result ==
    /\ pc = "pf_result"
    /\ IF result.ok
       THEN /\ times' = Append(times, result.value[1])
            /\ ram_deltas' = Append(ram_deltas, result.value[2])
            /\ vram_deltas' = Append(vram_deltas, result.value[3])
            /\ count' = count + 1
            /\ UNCHANGED errlog
       ELSE /\ errlog' = errlog \cup {[name |-> img_path.name,
                                       cause |-> result.cause]}
            /\ UNCHANGED <<times, ram_deltas, vram_deltas, count>>
    /\ calls' = calls \cup {[entry |-> img_path, env |-> frame.env,
                             ok |-> result.ok]}
    /\ pc' = "loop"
    /\ img_path' = None
    /\ frame' = None
    /\ result' = None
    /\ UNCHANGED <<GPU_AVAILABLE, listing, todo, report, vram_lines, handed,
                   files, saves>>
    /\ UNCHANGED <<pctVars, vizVars>>

stats(data) == [p95 |-> percentile(data, 95), p99 |-> percentile(data, 99),
                max |-> max(data)]

\* lines 123-146: the summary, printed when something was measured
pf_summary ==
    /\ pc = "loop"
    /\ todo = {}
    /\ pc' = "done"
    /\ IF count > 0
       THEN /\ report' = [count |-> count, time |-> stats(times),
                          ram |-> stats(ram_deltas)]
            /\ vram_lines' = vram_lines \cup
                 {IF GPU_AVAILABLE
                  THEN [at |-> "summary", name |-> <<>>, text |-> "stats",
                        value |-> stats(vram_deltas)]
                  ELSE [at |-> "summary", name |-> <<>>,
                        text |-> "unavailable", value |-> None]}
       ELSE UNCHANGED <<report, vram_lines>>
    /\ UNCHANGED <<GPU_AVAILABLE, listing, todo, img_path, frame, result,
                   times, ram_deltas, vram_deltas, count, errlog, handed,
                   calls, files, saves>>
    /\ UNCHANGED <<pctVars, vizVars>>

\* ------------------------------------------------------------------------
\* The call of percentile
\* ------------------------------------------------------------------------
percentile_call ==
    /\ pct_pc = "call"
    /\ pct_result' = percentile(call_data, call_p)
    /\ pct_pc' = "returned"
    /\ UNCHANGED <<call_data, call_p>>
    /\ UNCHANGED <<batchVars, vizVars>>

\* ------------------------------------------------------------------------
\* visualize.py: main and as_data_url
\* ------------------------------------------------------------------------
guess_type(name) ==
    LET ext == lower(suffix(name))
    IN  IF ext \in {<<".","j","p","g">>, <<".","j","p","e","g">>} THEN "image/jpeg"
        ELSE IF ext = DotPng THEN "image/png"
        ELSE IF ext = <<".","w","e","b","p">> THEN "image/webp"
        ELSE IF ext = <<".","b","m","p">> THEN "image/bmp"
        ELSE IF ext \in {<<".","t","i","f">>, <<".","t","i","f","f">>} THEN "image/tiff"
        ELSE None

\* lines 10-14: the data URL of the file name of directory dir, read_ok
\* saying whether read_bytes() returns; of says whose bytes the payload
\* encodes
as_data_url(dir, name, force_mime, read_ok) ==
    IF ~read_ok THEN Raise("read")
    ELSE Return([mime |-> IF force_mime # None THEN force_mime
                          ELSE IF guess_type(name) # None THEN guess_type(name)
                          ELSE "image/png",
                 of |-> <<dir, name>>])

\* v_scan with the stems of either directory taken for the common ones
v_scan_union ==
    /\ vpc = "scan"
    /\ originals' \in Dicts({e \in orig_dir :
                               e.isfile /\ lower(suffix(e.name)) \in IMG_EXTS})
    /\ processed' \in Dicts({e \in proc_dir :
                               e.isfile /\ lower(suffix(e.name)) = DotPng})
    /\ keys' = sortedStrs(DOMAIN originals' \cup DOMAIN processed')
    /\ vpc' = "main"
    /\ UNCHANGED <<orig_dir, proc_dir, unreadable, out_before, out_html,
                   rows_html, idx, warnings, printed, exit_status>>
    /\ UNCHANGED <<batchVars, pctVars>>

\* lines 22-31: the two dicts and the sorted common stems
v_scan ==
    /\ vpc = "scan"
    /\ originals' \in Dicts({e \in orig_dir :
                               e.isfile /\ lower(suffix(e.name)) \in IMG_EXTS})
    /\ processed' \in Dicts({e \in proc_dir :
                               e.isfile /\ lower(suffix(e.name)) = DotPng})
    /\ keys' = sortedStrs(DOMAIN originals' \cap DOMAIN processed')
    /\ vpc' = "main"
    /\ UNCHANGED <<orig_dir, proc_dir, unreadable, out_before, out_html,
                   rows_html, idx, warnings, printed, exit_status>>
    /\ UNCHANGED <<batchVars, pctVars>>

\* v_empty without the sys.exit(1): the error is printed and an empty
\* document written
v_empty_falls_through ==
    /\ vpc = "main"
    /\ keys = <<>>
    /\ printed' = [pairs |-> 0]
    /\ out_html' = [kind |-> "report", pairs |-> 0, rows |-> <<>>]
    /\ exit_status' = 0
    /\ vpc' = "exit"
    /\ UNCHANGED <<orig_dir, proc_dir, unreadable, out_before,
                   originals, processed, keys, rows_html, idx, warnings>>
    /\ UNCHANGED <<batchVars, pctVars>>

\* lines 32-34: no common stem
v_empty ==
    /\ vpc = "main"
    /\ keys = <<>>
    /\ printed' = "no matching names"
    /\ exit_status' = 1
    /\ vpc' = "exit"
    /\ UNCHANGED <<orig_dir, proc_dir, unreadable, out_before, out_html,
                   originals, processed, keys, rows_html, idx, warnings>>
    /\ UNCHANGED <<batchVars, pctVars>>

\* v_pair with break in the place of continue: an unreadable pair ends
\* the loop
v_pair_break ==
    /\ vpc = "main"
    /\ keys # <<>>
    /\ idx <= Len(keys)
    /\ \E o_ok, p_ok \in BOOLEAN :
       LET k     == keys[idx]
           o     == originals[k]
           pr    == processed[k]
           o_url == as_data_url("orig", o.name, None, o_ok)
           p_url == as_data_url("proc", pr.name, "image/png", p_ok)
       IN  IF ~o_url.ok
           THEN /\ warnings' = warnings \cup {k}
                /\ unreadable' = unreadable \cup {<<"orig", o.name>>}
                /\ idx' = Len(keys) + 1
                /\ UNCHANGED rows_html
           ELSE IF ~p_url.ok
           THEN /\ warnings' = warnings \cup {k}
                /\ unreadable' = unreadable \cup {<<"proc", pr.name>>}
                /\ idx' = Len(keys) + 1
                /\ UNCHANGED rows_html
           ELSE /\ rows_html' = Append(rows_html,
                                  [key |-> k,
                                   original |-> [src |-> o_url.value, filename |-> o.name],
                                   nobg |-> [src |-> p_url.value, filename |-> pr.name]])
                /\ idx' = idx + 1
                /\ UNCHANGED <<warnings, unreadable>>
    /\ UNCHANGED <<orig_dir, proc_dir, out_before, out_html, vpc,
                   originals, processed, keys, printed, exit_status>>
    /\ UNCHANGED <<batchVars, pctVars>>

\* lines 37-60: one pass of the loop over keys
v_pair ==
    /\ vpc = "main"
    /\ keys # <<>>
    /\ idx <= Len(keys)
    /\ \E o_ok, p_ok \in BOOLEAN :
       LET k     == keys[idx]
           o     == originals[k]
           pr    == processed[k]
           o_url == as_data_url("orig", o.name, None, o_ok)
           p_url == as_data_url("proc", pr.name, "image/png", p_ok)
       IN  IF ~o_url.ok
           THEN /\ warnings' = warnings \cup {k}
                /\ unreadable' = unreadable \cup {<<"orig", o.name>>}
                /\ UNCHANGED rows_html
           ELSE IF ~p_url.ok
           THEN /\ warnings' = warnings \cup {k}
                /\ unreadable' = unreadable \cup {<<"proc", pr.name>>}
                /\ UNCHANGED rows_html
           ELSE /\ rows_html' = Append(rows_html,
                                  [key |-> k,
                                   original |-> [src |-> o_url.value, filename |-> o.name],
                                   nobg |-> [src |-> p_url.value, filename |-> pr.name]])
                /\ UNCHANGED <<warnings, unreadable>>
    /\ idx' = idx + 1
    /\ UNCHANGED <<orig_dir, proc_dir, out_before, out_html, vpc,
                   originals, processed, keys, printed, exit_status>>
    /\ UNCHANGED <<batchVars, pctVars>>

\* lines 62-152: the document is written and the final message printed
v_write ==
    /\ vpc = "main"
    /\ keys # <<>>
    /\ idx > Len(keys)
    /\ out_html' = [kind |-> "report", pairs |-> Len(rows_html),
                    rows |-> rows_html]
    /\ printed' = [pairs |-> Len(rows_html)]
    /\ exit_status' = 0
    /\ vpc' = "exit"
    /\ UNCHANGED <<orig_dir, proc_dir, unreadable, out_before, originals,
                   processed, keys, rows_html, idx, warnings>>
    /\ UNCHANGED <<batchVars, pctVars>>

\* ------------------------------------------------------------------------
\* Specifications
\* ------------------------------------------------------------------------
vars == <<batchVars, pctVars, vizVars>>

\* a run of process_folder
Init == InitBatch /\ IdlePct /\ IdleViz

Next ==
    \/ glob_next
    \/ rb_probe
    \/ rb_open
    \/ rb_session
    \/ rb_remove
    \/ pf_result
    \/ pf_summary

Spec == Init /\ [][Next]_vars

IdleBatch ==
    /\ GPU_AVAILABLE = FALSE
    /\ listing = {}
    /\ todo = {}
    /\ pc = "idle"
    /\ img_path = None
    /\ frame = None
    /\ result = None
    /\ times = <<>> /\ ram_deltas = <<>> /\ vram_deltas = <<>> /\ count = 0
    /\ report = None
    /\ vram_lines = {}
    /\ errlog = {}
    /\ handed = <<>>
    /\ calls = {}
    /\ files = {}
    /\ saves = 0

\* a call of percentile
InitPercentile == IdleBatch /\ InitPct /\ IdleViz

NextPercentile == percentile_call

SpecPercentile == InitPercentile /\ [][NextPercentile]_vars

\* a run of the report generator
InitReport == IdleBatch /\ IdlePct /\ InitViz

NextReport ==
    \/ v_scan
    \/ v_empty
    \/ v_pair
    \/ v_write

SpecReport == InitReport /\ [][NextReport]_vars

\* ------------------------------------------------------------------------
\* Properties of the batch runner (Spec)
\* ------------------------------------------------------------------------

\* nothing a call depends on fails: the entry is a decodable file and no
\* collaborator raises
Healthy(c) == c.entry.image /\ ~c.entry.isdir /\ c.env = "ok"

\* C1: a failing remove_background call never ends the batch early: no
\* exception leaves process_folder, each failure is logged with the file
\* name, no entry is handed over twice, the run goes on until it has
\* returned, and by then every selected entry was handed over exactly once.
C1_FailureIsolation ==
    /\ pc # "raised"
    /\ pc = "done" \/ ENABLED Next
    /\ \A e \in listing : handed[e] <= 1
    /\ \A c \in calls : ~c.ok => \E l \in errlog : l.name = c.entry.name
    /\ pc = "done" =>
         \A e \in listing : handed[e] = (IF selected(e) THEN 1 ELSE 0)

\* a run that returned after several calls, one of which failed
C1_Witness ==
    /\ pc = "done"
    /\ Cardinality(calls) >= 2
    /\ \E c \in calls : ~c.ok

\* C2: at the end of the scan count is the number of items whose
\* processing succeeds, each of times, ram_deltas and vram_deltas holds one
\* measurement per such item, and the summary reports that count.
C2_CountIsSucceedingItems ==
    pc = "done" =>
        /\ count = Cardinality({c \in calls : Healthy(c)})
        /\ Len(times) = count
        /\ Len(ram_deltas) = count
        /\ Len(vram_deltas) = count
        /\ count > 0 => report # None /\ report.count = count

\* C4: a numeric VRAM line is printed only when GPU_AVAILABLE, and a run
\* without the GPU backend prints the VRAM line of every processed item and
\* of the summary as "unavailable".
C4_VramUnavailableReported ==
    /\ \A l \in vram_lines : l.text # "unavailable" => GPU_AVAILABLE
    /\ ~GPU_AVAILABLE =>
         /\ \A c \in calls : Healthy(c) =>
                \E l \in vram_lines :
                    l.at = "item" /\ l.name = c.entry.name /\ l.text = "unavailable"
         /\ pc = "done" /\ (\E c \in calls : Healthy(c)) =>
                \E l \in vram_lines : l.at = "summary" /\ l.text = "unavailable"

\* C5: an entry the loop has passed was handed to remove_background if and
\* only if it is a file whose extension, lower-cased, is jpg, jpeg, png or
\* webp, and no other entry has an error line.
C5_OnlyImageFilesHanded ==
    /\ \A e \in listing \ todo :
          handed[e] >= 1 <=> (~e.isdir /\ lower(suffix(e.name)) \in BatchExts)
    /\ \A l \in errlog : \E e \in listing :
          e.name = l.name /\ ~e.isdir /\ lower(suffix(e.name)) \in BatchExts

\* C6: after the run output_dir holds <stem>.png for every successfully
\* processed input, one file per success.
C6_OneOutputPerSuccess ==
    pc = "done" =>
        /\ \A c \in calls : Healthy(c) => out_name(c.entry) \in files
        /\ Cardinality(files) = Cardinality({c \in calls : Healthy(c)})
        /\ saves = Cardinality(files)

\* C10: a remove_background call on a decodable file, with a model that
\* does not fail and a writable output directory, returns a measurement
\* and not an error.
C10_HealthyCallReturns ==
    pc = "pf_result" /\ img_path.image /\ ~img_path.isdir /\ frame.env = "ok"
        => result.ok

\* ------------------------------------------------------------------------
\* Properties of percentile (SpecPercentile)
\* ------------------------------------------------------------------------

\* the i-th smallest sample: fewer than i samples are below it and at
\* least i are not above it
ranked(xs, i) ==
    CHOOSE v \in {xs[j] : j \in 1..Len(xs)} :
        /\ Cardinality({j \in 1..Len(xs) : xs[j] < v}) < i
        /\ Cardinality({j \in 1..Len(xs) : xs[j] <= v}) >= i

\* the estimator of the specification, rank 0 being the smallest sample:
\* k = (len(xs) - 1) * p / 100, f = floor(k), c = ceil(k)
estimator(xs, q) ==
    LET k == FDivNat((Len(xs) - 1) * q, 100)
        f == ((Len(xs) - 1) * q) \div 100
        c == IF ((Len(xs) - 1) * q) % 100 = 0 THEN f ELSE f + 1
    IN  IF f = c THEN FromInt(ranked(xs, f + 1))
        ELSE FAdd(FromInt(ranked(xs, f + 1)),
                  FMulInt(ranked(xs, c + 1) - ranked(xs, f + 1),
                          FAdd(k, FromInt(-f))))

\* C3 as stated: for a non-empty list and p in 0..100 percentile returns
\* the linear-interpolation estimator of the specification, with
\* k = (len(xs) - 1) * p / 100 and the sample of rank k when k is a whole
\* number.
C3_PercentileIsEstimator ==
    pct_pc = "returned" /\ call_data # <<>> =>
        pct_result = estimator(call_data, call_p)

\* the estimator with the rank as the code rounds it: p / 100 is rounded
\* to a float before it is multiplied by len(xs) - 1, and floor and ceil
\* are those of the rounded product
rounded_estimator(xs, q) ==
    LET k == FMulInt(Len(xs) - 1, FDivNat(q, 100))
        f == FFloor(k)
        c == FCeil(k)
    IN  IF f = c THEN FromInt(ranked(xs, f + 1))
        ELSE FAdd(FromInt(ranked(xs, f + 1)),
                  FMulInt(ranked(xs, c + 1) - ranked(xs, f + 1),
                          FAdd(k, FromInt(-f))))

TwoAndAHalf == [sg |-> 1, m |-> <<5>>, e |-> -1]

\* C3: for a non-empty list and p in 0..100 percentile returns the
\* linear-interpolation estimator over the ascending samples with the rank
\* k = (len(xs) - 1) * (p / 100), p / 100 rounded first; p = 0 gives the
\* minimum, p = 100 the maximum, a single sample gives that sample, and
\* [1,2,3,4] with p = 50 gives 2.5.
C3_PercentileIsRoundedEstimator ==
    pct_pc = "returned" /\ call_data # <<>> =>
        /\ pct_result = rounded_estimator(call_data, call_p)
        /\ call_p = 0 => pct_result = FromInt(ranked(call_data, 1))
        /\ call_p = 100 => pct_result = FromInt(ranked(call_data, Len(call_data)))
        /\ Len(call_data) = 1 => pct_result = FromInt(call_data[1])
        /\ call_data = <<1, 2, 3, 4>> /\ call_p = 50 => pct_result = TwoAndAHalf

\* the call percentile([4,3,2,1], 50) has returned 2.5
C3_Witness ==
    /\ pct_pc = "returned"
    /\ call_data = <<4, 3, 2, 1>>
    /\ call_p = 50
    /\ pct_result = TwoAndAHalf

\* ------------------------------------------------------------------------
\* Properties of the report generator (SpecReport)
\* ------------------------------------------------------------------------
OrigStems == {stem(e.name) : e \in {x \in orig_dir :
                  x.isfile /\ lower(suffix(x.name)) \in IMG_EXTS}}

ProcStems == {stem(e.name) : e \in {x \in proc_dir :
                  x.isfile /\ lower(suffix(x.name)) = DotPng}}

Scanned == vpc \in {"main", "exit"}

\* C7: keys is the intersection of the stems of the allow-listed files of
\* the originals directory and the stems of the .png files of the processed
\* directory, ascending and each stem once; a stem of one directory only is
\* in no message.
C7_KeysAreSortedIntersection ==
    Scanned =>
        /\ {keys[n] : n \in 1..Len(keys)} = OrigStems \cap ProcStems
        /\ \A m, n \in 1..Len(keys) : m < n => strLess(keys[m], keys[n])
        /\ warnings \subseteq OrigStems \cap ProcStems

\* the example of the specification: {a.jpg, b.png, c.jpg} and
\* {a.png, b.png, d.png} give [a, b]
C7_Witness ==
    /\ Scanned
    /\ {e.name : e \in orig_dir} = {<<"a",".","j","p","g">>, <<"b",".","p","n","g">>,
                                    <<"c",".","j","p","g">>}
    /\ {e.name : e \in proc_dir} = {<<"a",".","p","n","g">>, <<"b",".","p","n","g">>,
                                    <<"d",".","p","n","g">>}
    /\ keys = << <<"a">>, <<"b">> >>

\* C8: without a common stem the run prints the error, exits with status 1
\* and leaves the output path as it was; with a common stem it writes the
\* document and exits with status 0.
C8_EmptyMatchFails ==
    /\ OrigStems \cap ProcStems = {} => out_html = out_before
    /\ vpc = "exit" =>
         IF OrigStems \cap ProcStems = {}
         THEN exit_status = 1 /\ printed = "no matching names"
         ELSE exit_status = 0 /\ out_html.kind = "report"

\* a run over two non-empty directories without a common stem that has
\* ended, the output path holding an older file
C8_Witness ==
    /\ vpc = "exit"
    /\ exit_status = 1
    /\ orig_dir # {} /\ proc_dir # {}
    /\ out_before.kind = "stale"

Readable(k) == /\ <<"orig", originals[k].name>> \notin unreadable
               /\ <<"proc", processed[k].name>> \notin unreadable

\* C9: a pair with an unreadable file is skipped with a warning and the
\* loop goes on: the rows are those of the matched keys whose two files
\* are readable, in the order of keys, the document holds exactly these
\* rows, and the count in the document and in the final message is their
\* number.
C9_UnreadablePairSkipped ==
    /\ \A m, n \in 1..Len(rows_html) :
          m < n => strLess(rows_html[m].key, rows_html[n].key)
    /\ Scanned =>
         /\ {rows_html[n].key : n \in 1..Len(rows_html)}
              = {keys[n] : n \in 1..(idx - 1)} \cap {k \in DOMAIN originals \cap DOMAIN processed : Readable(k)}
         /\ warnings
              = {keys[n] : n \in 1..(idx - 1)} \cap {k \in DOMAIN originals \cap DOMAIN processed : ~Readable(k)}
    /\ vpc = "exit" /\ keys # <<>> =>
         /\ idx = Len(keys) + 1
         /\ out_html = [kind |-> "report", pairs |-> Len(rows_html),
                       rows |-> rows_html]
         /\ printed = [pairs |-> Len(rows_html)]
         /\ exit_status = 0

\* a finished run that skipped one pair and rendered a later one
C9_Witness ==
    /\ vpc = "exit"
    /\ exit_status = 0
    /\ \E w \in warnings : \E n \in 1..Len(rows_html) : strLess(w, rows_html[n].key)

====
